---- MODULE Spec2Model ----
(***************************************************************************)
(* Model of PowerIntelligence (src/src/daily_power_actor.py): the status   *)
(* resolver fetch_eskom_status with its three tiers, fetch_power_alert,    *)
(* and run with its validity gate, storage insert and dataset push; and of  *)
(* ScheduleIngestor (src/src/ingest_schedule.py) with its main loop.        *)
(*                                                                         *)
(* Texts are sequences of one-character strings, so that upper(), strip(), *)
(* the "in" substring test and re.search are computed as the code computes  *)
(* them.  One behaviour of the model is one invocation of run().           *)
(***************************************************************************)
EXTENDS Integers, Sequences, FiniteSets, TLC

VARIABLES
  pc,                 \* position of run()
  stage,              \* local of fetch_eskom_status
  status_text,        \* local of fetch_eskom_status
  raw_text,           \* local of fetch_eskom_status
  eskom_data,         \* run: the dict returned by fetch_eskom_status
  power_alert_color,  \* run: the value returned by fetch_power_alert
  payload,            \* run: the record built at lines 143-153
  calls,              \* the collaborator calls made so far, in order
  inserted,           \* the records handed to the Supabase insert
  pushed,             \* the records handed to Actor.push_data
  exits,              \* the exit codes handed to Actor.exit
  raised,             \* the call whose exception left run(), or "none"
  t1, t2, t3,         \* what each tier's collaborator answered
  ta,                 \* what the PowerAlert API answered
  stage1, stage2,     \* stage as Method 1 / Method 2 left it
  status1,            \* status_text as Method 1 left it
  local_file          \* what os.path.exists answered: "yes", "no", "not_asked"

\* ingest_schedule.py
VARIABLES
  ipc,                \* position of the ingest script
  files,              \* main: the files of glob.glob still to process
  file_path,          \* main: the file being processed
  province_id,        \* main: the province_id handed to both ingest calls
  nrows,              \* ingest_schedule: number of rows of df
  idx,                \* ingest_schedule: index of the next row of df
  current_start,      \* ingest_schedule: local
  current_end,        \* ingest_schedule: local
  schedule_records,   \* ingest_schedule: local
  suburbs_upserted,   \* the batches handed to the suburbs upsert
  schedule_inserted   \* the batches handed to the schedule insert

ivars == <<ipc, files, file_path, province_id, nrows, idx, current_start,
           current_end, schedule_records, suburbs_upserted, schedule_inserted>>

rvars == <<pc, stage, status_text, raw_text, eskom_data, power_alert_color,
          payload, calls, inserted, pushed, exits, raised, t1, t2, t3, ta,
          stage1, stage2, status1, local_file>>

vars == <<rvars, ivars>>

-----------------------------------------------------------------------------
(* Bounds *)

\* the text of the page's status element is a concatenation of at most
\* MaxFrags fragments
MaxFrags == 2
\* the text of the local file's status element, of at most MaxFileFrags
MaxFileFrags == 1
\* the GetStatus API body is an integer in -1..MaxApiVal (or not a number)
MaxApiVal == 3

-----------------------------------------------------------------------------
(* Character data *)

LowerCase == <<"a","b","c","d","e","f","g","h","i","j","k","l","m",
               "n","o","p","q","r","s","t","u","v","w","x","y","z">>
UpperCase == <<"A","B","C","D","E","F","G","H","I","J","K","L","M",
               "N","O","P","Q","R","S","T","U","V","W","X","Y","Z">>
DigitChars == <<"0","1","2","3","4","5","6","7","8","9">>

\* the string literals of fetch_eskom_status
NOT_LOAD_SHEDDING == <<"N","O","T"," ","L","O","A","D"," ",
                       "S","H","E","D","D","I","N","G">>
STAGE == <<"S","T","A","G","E">>
Unknown == <<"U","n","k","n","o","w","n">>
Suspended == <<"S","u","s","p","e","n","d","e","d">>
Active == <<"A","c","t","i","v","e">>
ApiValuePrefix == <<"A","P","I"," ","V","a","l","u","e",":"," ">>

\* fragments the scraped texts are built from
FragStage4 == <<"S","t","a","g","e"," ","4">>
FragNotLS == <<"N","o","t"," ","L","o","a","d"," ",
               "S","h","e","d","d","i","n","g">>
Fragments == { FragStage4, STAGE, FragNotLS, <<" ">>, <<"0">>, <<"x">> }

\* fragments the local file's text is built from
FileFragments == { FragStage4, STAGE, FragNotLS, <<"x">> }

RECURSIVE TextsOfLen(_, _)
TextsOfLen(frags, n) ==
  IF n = 0 THEN { <<>> }
  ELSE { f \o t : f \in frags, t \in TextsOfLen(frags, n - 1) }

\* every text of at most MaxFrags fragments (the empty text included)
Texts == UNION { TextsOfLen(Fragments, n) : n \in 0..MaxFrags }

\* every text of at most MaxFileFrags fragments
FileTexts == UNION { TextsOfLen(FileFragments, n) : n \in 0..MaxFileFrags }

-----------------------------------------------------------------------------
(* str methods and re.search, as the code uses them *)

IsSpace(c) == c \in {" ", "\n", "\t"}
IsDigit(c) == \E i \in 1..10 : DigitChars[i] = c
DigitVal(c) == (CHOOSE i \in 1..10 : DigitChars[i] = c) - 1

\* str.upper(), one character
UpperChar(c) ==
  IF \E i \in 1..26 : LowerCase[i] = c
  THEN UpperCase[CHOOSE i \in 1..26 : LowerCase[i] = c]
  ELSE c

\* str.upper()
Upper(s) == [i \in 1..Len(s) |-> UpperChar(s[i])]

\* p in s
Contains(s, p) ==
  \E i \in 1..(Len(s) - Len(p) + 1) : SubSeq(s, i, i + Len(p) - 1) = p

\* str.strip() / get_text(strip=True) on a single text node
Strip(s) ==
  LET keep == { i \in 1..Len(s) : ~IsSpace(s[i]) }
  IN  IF keep = {} THEN <<>>
      ELSE LET lo == CHOOSE i \in keep : \A j \in keep : i <= j
               hi == CHOOSE i \in keep : \A j \in keep : j <= i
           IN  SubSeq(s, lo, hi)

\* int() of a run of decimal digits
RECURSIVE DigitsToInt(_)
DigitsToInt(d) ==
  IF d = <<>> THEN 0
  ELSE 10 * DigitsToInt(SubSeq(d, 1, Len(d) - 1)) + DigitVal(d[Len(d)])

\* str() of a natural number
RECURSIVE IntToStr(_)
IntToStr(n) ==
  IF n < 10 THEN << DigitChars[n + 1] >>
  ELSE IntToStr(n \div 10) \o << DigitChars[(n % 10) + 1] >>

\* first index >= i of s that is not whitespace (Len(s)+1 if none): \s*
SkipSpaces(s, i) ==
  LET rest == { j \in i..Len(s) : ~IsSpace(s[j]) }
  IN  IF rest = {} THEN Len(s) + 1
      ELSE CHOOSE j \in rest : \A k \in rest : j <= k

\* last index of the maximal digit run that starts at j: (\d+)
DigitRunEnd(s, j) ==
  LET stop == { k \in j..Len(s) : ~IsDigit(s[k]) }
  IN  IF stop = {} THEN Len(s)
      ELSE (CHOOSE k \in stop : \A m \in stop : k <= m) - 1

\* STAGE\s*(\d+) matches at position i of s
MatchAt(s, i) ==
  /\ i + 4 <= Len(s)
  /\ SubSeq(s, i, i + 4) = STAGE
  /\ LET j == SkipSpaces(s, i + 5)
     IN  j <= Len(s) /\ IsDigit(s[j])

\* re.search(r"STAGE\s*(\d+)", s): leftmost match, its group 1
ReSearch(s) ==
  LET hits == { i \in 1..Len(s) : MatchAt(s, i) }
  IN  IF hits = {} THEN [found |-> FALSE, group1 |-> <<>>]
      ELSE LET i == CHOOSE h \in hits : \A g \in hits : h <= g
               j == SkipSpaces(s, i + 5)
           IN  [found |-> TRUE, group1 |-> SubSeq(s, j, DigitRunEnd(s, j))]

\* int(resp.text.strip()): an optional sign and decimal digits, else ValueError
ParseInt(body) ==
  LET s == Strip(body)
      signed == s # <<>> /\ s[1] \in {"-", "+"}
      digits == IF signed THEN Tail(s) ELSE s
  IN  IF digits # <<>> /\ \A i \in 1..Len(digits) : IsDigit(digits[i])
      THEN [ok |-> TRUE,
            val |-> IF signed /\ s[1] = "-" THEN 0 - DigitsToInt(digits)
                    ELSE DigitsToInt(digits)]
      ELSE [ok |-> FALSE, val |-> 0]

-----------------------------------------------------------------------------
(* Collaborator outcomes *)

\* requests.get(main page) + BeautifulSoup: the call raises, answers with a
\* status other than 200, or answers 200 with or without the lsstatus span
Tier1Responses ==
  { [kind |-> k, has_span |-> FALSE, span |-> <<>>] : k \in {"error", "non200", "ok"} }
  \cup { [kind |-> "ok", has_span |-> TRUE, span |-> t] : t \in Texts }

\* str(val) as the GetStatus endpoint prints it
SignedStr(v) == IF v < 0 THEN <<"-">> \o IntToStr(0 - v) ELSE IntToStr(v)

\* bodies of the GetStatus endpoint: a number and a newline, or not a number
ApiBodies ==
  { SignedStr(v) \o <<"\n">> : v \in (0 - 1)..MaxApiVal } \cup { <<>>, <<"x">> }

\* requests.get(GetStatus): raises, non-200, or 200 with a body
Tier2Responses ==
  { [kind |-> k, body |-> <<>>] : k \in {"error", "non200"} }
  \cup { [kind |-> "ok", body |-> b] : b \in ApiBodies }

\* open()/read() of the local file: raises, or yields a document with or
\* without the lsstatus span
Tier3Responses ==
  { [kind |-> k, has_span |-> FALSE, span |-> <<>>] : k \in {"error", "ok"} }
  \cup { [kind |-> "ok", has_span |-> TRUE, span |-> t] : t \in FileTexts }

\* values of the "Color" field
Colors == {"Green", "Unknown"}

\* requests.get(PowerAlert) + response.json(): raises, non-200, body that is
\* not JSON, or a JSON object with or without the Color field
AlertResponses ==
  { [kind |-> k, has_color |-> FALSE, color |-> "Unknown"] :
      k \in {"error", "non200", "malformed", "ok"} }
  \cup { [kind |-> "ok", has_color |-> TRUE, color |-> c] : c \in Colors }

\* marker for a tier that was not attempted
NotTried == [kind |-> "skipped"]

-----------------------------------------------------------------------------
(* fetch_eskom_status, tier by tier.  Each operator maps the locals          *)
(* (stage, status_text, raw_text) and the collaborator's outcome to the new  *)
(* locals.                                                                   *)

Locals(st, tx, raw) == [stage |-> st, status_text |-> tx, raw_text |-> raw]

\* status_span.get_text(strip=True) if status_span else "Unknown"
ExtractText(resp) == IF resp.has_span THEN Strip(resp.span) ELSE Unknown

\* Classify1 with the substring tests made on raw_text, not raw_text.upper()
Classify1_CaseSensitive(st, tx, raw) ==
  IF Contains(raw, NOT_LOAD_SHEDDING)
  THEN Locals(0, Suspended, raw)
  ELSE IF Contains(raw, STAGE)
  THEN LET match == ReSearch(Upper(raw))
       IN  IF match.found
           THEN Locals(DigitsToInt(match.group1), Active, raw)
           ELSE Locals(st, tx, raw)
  ELSE IF raw # Unknown
  THEN Locals(st, raw, raw)
  ELSE Locals(st, tx, raw)

\* Classify1 with re.search run on raw_text, not raw_text.upper()
Classify1_SearchRaw(st, tx, raw) ==
  IF Contains(Upper(raw), NOT_LOAD_SHEDDING)
  THEN Locals(0, Suspended, raw)
  ELSE IF Contains(Upper(raw), STAGE)
  THEN LET match == ReSearch(raw)
       IN  IF match.found
           THEN Locals(DigitsToInt(match.group1), Active, raw)
           ELSE Locals(st, tx, raw)
  ELSE IF raw # Unknown
  THEN Locals(st, raw, raw)
  ELSE Locals(st, tx, raw)

\* Classify1 taking the text as status when "STAGE" has no number after it
Classify1_VerbatimOnNoMatch(st, tx, raw) ==
  IF Contains(Upper(raw), NOT_LOAD_SHEDDING)
  THEN Locals(0, Suspended, raw)
  ELSE IF Contains(Upper(raw), STAGE) /\ ReSearch(Upper(raw)).found
  THEN Locals(DigitsToInt(ReSearch(Upper(raw)).group1), Active, raw)
  ELSE IF raw # Unknown
  THEN Locals(st, raw, raw)
  ELSE Locals(st, tx, raw)

\* lines 58-70: classification of the text scraped from the main page
Classify1(st, tx, raw) ==
  IF Contains(Upper(raw), NOT_LOAD_SHEDDING)
  THEN Locals(0, Suspended, raw)
  ELSE IF Contains(Upper(raw), STAGE)
  THEN LET match == ReSearch(Upper(raw))
       IN  IF match.found
           THEN Locals(DigitsToInt(match.group1), Active, raw)
           ELSE Locals(st, tx, raw)
  ELSE IF raw # Unknown
  THEN Locals(st, raw, raw)
  ELSE Locals(st, tx, raw)

\* lines 50-74: Method 1, scrape of the main page
Tier1(st, tx, raw, resp) ==
  IF resp.kind = "ok"
  THEN Classify1(st, tx, ExtractText(resp))
  ELSE Locals(st, tx, raw)

\* Tier2 with stage = val in place of stage = val - 1
Tier2_NoOffset(st, tx, raw, resp) ==
  IF resp.kind = "ok"
  THEN LET parsed == ParseInt(resp.body)
       IN  IF parsed.ok /\ parsed.val > 0
           THEN Locals(parsed.val,
                       IF parsed.val > 0 THEN Active ELSE Suspended,
                       ApiValuePrefix \o IntToStr(parsed.val))
           ELSE Locals(st, tx, raw)
  ELSE Locals(st, tx, raw)

\* lines 79-95: Method 2, GetStatus API (entered only when stage == -1)
Tier2(st, tx, raw, resp) ==
  IF resp.kind = "ok"
  THEN LET parsed == ParseInt(resp.body)
       IN  IF parsed.ok /\ parsed.val > 0
           THEN Locals(parsed.val - 1,
                       IF parsed.val - 1 > 0 THEN Active ELSE Suspended,
                       ApiValuePrefix \o IntToStr(parsed.val))
           ELSE Locals(st, tx, raw)
  ELSE Locals(st, tx, raw)

\* lines 106-114: classification of the text read from the local file
Classify3(st, tx, raw) ==
  IF Contains(Upper(raw), NOT_LOAD_SHEDDING)
  THEN Locals(0, Suspended, raw)
  ELSE IF Contains(Upper(raw), STAGE)
  THEN LET match == ReSearch(Upper(raw))
       IN  IF match.found
           THEN Locals(DigitsToInt(match.group1), Active, raw)
           ELSE Locals(st, tx, raw)
  ELSE Locals(st, tx, raw)

\* lines 100-116: Method 3, local file (entered only when stage == -1 and
\* the file exists)
Tier3(st, tx, raw, resp) ==
  IF resp.kind = "ok"
  THEN Classify3(st, tx, ExtractText(resp))
  ELSE Locals(st, tx, raw)

\* lines 50/73, 79/94, 100/115: each method runs inside try ... except
\* Exception, so a raising collaborator never leaves fetch_eskom_status
TierEscapes(resp) == FALSE

\* Tier2Guard with the stage test dropped
Tier2Guard_Always(st) == TRUE

\* line 77: the guard of Method 2
Tier2Guard(st) == st = 0 - 1

\* line 98: the guard of Method 3
Tier3Guard(st, exists) == st = 0 - 1 /\ exists

\* ReturnValue without the "if raw_text else status_text" fallback
ReturnValue_NoFallback(st, tx, raw) ==
  [stage |-> st, status |-> tx, raw_text |-> raw]

\* lines 118-122: the returned dict
ReturnValue(st, tx, raw) ==
  [stage |-> st, status |-> tx, raw_text |-> IF raw # <<>> THEN raw ELSE tx]

-----------------------------------------------------------------------------
(* fetch_power_alert and the payload of run *)

\* FetchPowerAlertResult with data.get("Color") and no default
FetchPowerAlertResult_NoDefault(resp) ==
  IF resp.kind = "ok"
  THEN IF resp.has_color THEN resp.color ELSE "None"
  ELSE "Unknown"

\* lines 24-40
FetchPowerAlertResult(resp) ==
  IF resp.kind = "ok"
  THEN IF resp.has_color THEN resp.color ELSE "Unknown"
  ELSE "Unknown"

\* BothSourcesUnresolved with "or" in place of "and"
BothSourcesUnresolved_Either(data, color) ==
  data.stage = 0 - 1 \/ color = "Unknown"

\* BothSourcesUnresolved testing stage against 0 in place of -1
BothSourcesUnresolved_WrongSentinel(data, color) ==
  data.stage = 0 /\ color = "Unknown"

\* line 138: the validity gate
BothSourcesUnresolved(data, color) == data.stage = 0 - 1 /\ color = "Unknown"

\* BuildPayload without the replacement of -1 by 0
BuildPayload_NoCoerce(data, color) ==
  [stage |-> data.stage,
   status |-> data.status,
   raw_response |-> [eskom_text |-> data.raw_text,
                     power_alert_color |-> color,
                     provider |-> "Eskom + PowerAlert.co.za"]]

\* BuildPayload that reports an unresolved stage as "Suspended"
BuildPayload_StatusFromStage(data, color) ==
  [stage |-> IF data.stage # 0 - 1 THEN data.stage ELSE 0,
   status |-> IF data.stage # 0 - 1 THEN data.status ELSE Suspended,
   raw_response |-> [eskom_text |-> data.raw_text,
                     power_alert_color |-> color,
                     provider |-> "Eskom + PowerAlert.co.za"]]

\* lines 143-153
BuildPayload(data, color) ==
  [stage |-> IF data.stage # 0 - 1 THEN data.stage ELSE 0,
   status |-> data.status,
   raw_response |-> [eskom_text |-> data.raw_text,
                     power_alert_color |-> color,
                     provider |-> "Eskom + PowerAlert.co.za"]]

\* lines 38-40: fetch_power_alert catches every exception
AlertEscapes(resp) == FALSE

\* lines 158-162: an exception of the insert is caught by the except block
InsertEscapes(ok) == FALSE

\* line 165: Actor.push_data is awaited outside any try block
PushEscapes(ok) == ~ok

\* value of eskom_data and payload before they are assigned
NoData == [stage |-> 0 - 1, status |-> <<>>, raw_text |-> <<>>]
NoPayload == BuildPayload(NoData, "")

-----------------------------------------------------------------------------
(* run(), step by step *)

RunInit ==
  /\ pc = "init"
  /\ stage = 0 - 1
  /\ status_text = Unknown
  /\ raw_text = <<>>
  /\ eskom_data = NoData
  /\ power_alert_color = ""
  /\ payload = NoPayload
  /\ calls = <<>>
  /\ inserted = <<>>
  /\ pushed = <<>>
  /\ exits = <<>>
  /\ raised = "none"
  /\ t1 = NotTried
  /\ t2 = NotTried
  /\ t3 = NotTried
  /\ ta = NotTried
  /\ stage1 = 0 - 1
  /\ stage2 = 0 - 1
  /\ local_file = "not_asked"
  /\ status1 = Unknown

\* the ingest script is not running
IngestIdle ==
  /\ ipc = "idle"
  /\ files = <<>>
  /\ file_path = ""
  /\ province_id = ""
  /\ nrows = 0
  /\ idx = 0
  /\ current_start = "None"
  /\ current_end = "None"
  /\ schedule_records = <<>>
  /\ suburbs_upserted = <<>>
  /\ schedule_inserted = <<>>

Init == RunInit /\ IngestIdle

\* line 125: await Actor.init()
ActorInit ==
  /\ pc = "init"
  /\ pc' = "tier1"
  /\ calls' = Append(calls, "init")
  /\ UNCHANGED <<stage, status_text, raw_text, eskom_data, power_alert_color,
                 payload, inserted, pushed, exits, raised, t1, t2, t3,
                 stage1, stage2, local_file,
                 status1, ta>>
  /\ UNCHANGED ivars

\* lines 45-74: Method 1
Method1 ==
  /\ pc = "tier1"
  /\ \E resp \in Tier1Responses :
       LET new == Tier1(stage, status_text, raw_text, resp)
       IN  /\ t1' = resp
           /\ calls' = Append(calls, "get_main_page")
           /\ IF TierEscapes(resp)
              THEN /\ pc' = "raised"
                   /\ raised' = "fetch_eskom_status"
                   /\ UNCHANGED <<stage, status_text, raw_text, stage1,
                                  status1>>
              ELSE /\ pc' = "tier2"
                   /\ stage' = new.stage
                   /\ status_text' = new.status_text
                   /\ raw_text' = new.raw_text
                   /\ stage1' = new.stage
                   /\ status1' = new.status_text
                   /\ UNCHANGED raised
  /\ UNCHANGED <<eskom_data, power_alert_color, payload, inserted, pushed,
                 exits, t2, t3, stage2, local_file, ta>>
  /\ UNCHANGED ivars

\* lines 77-95: Method 2, when its guard holds
Method2 ==
  /\ pc = "tier2"
  /\ Tier2Guard(stage)
  /\ \E resp \in Tier2Responses :
       LET new == Tier2(stage, status_text, raw_text, resp)
       IN  /\ t2' = resp
           /\ calls' = Append(calls, "get_status_api")
           /\ IF TierEscapes(resp)
              THEN /\ pc' = "raised"
                   /\ raised' = "fetch_eskom_status"
                   /\ UNCHANGED <<stage, status_text, raw_text, stage2>>
              ELSE /\ pc' = "tier3"
                   /\ stage' = new.stage
                   /\ status_text' = new.status_text
                   /\ raw_text' = new.raw_text
                   /\ stage2' = new.stage
                   /\ UNCHANGED raised
  /\ UNCHANGED <<eskom_data, power_alert_color, payload, inserted, pushed,
                 exits, t1, t3, stage1, local_file,
                 status1, ta>>
  /\ UNCHANGED ivars

\* line 77: Method 2 is not entered
Method2Skip ==
  /\ pc = "tier2"
  /\ ~Tier2Guard(stage)
  /\ pc' = "tier3"
  /\ stage2' = stage
  /\ UNCHANGED <<stage, status_text, raw_text, eskom_data, power_alert_color,
                 payload, calls, inserted, pushed, exits, raised, t1, t2, t3,
                 stage1, local_file,
                 status1, ta>>
  /\ UNCHANGED ivars

\* lines 98-116: Method 3, when stage == -1 and os.path.exists(...) holds
Method3 ==
  /\ pc = "tier3"
  /\ Tier3Guard(stage, TRUE)
  /\ local_file' = "yes"
  /\ \E resp \in Tier3Responses :
       LET new == Tier3(stage, status_text, raw_text, resp)
       IN  /\ t3' = resp
           /\ calls' = calls \o <<"exists_local_file", "open_local_file">>
           /\ IF TierEscapes(resp)
              THEN /\ pc' = "raised"
                   /\ raised' = "fetch_eskom_status"
                   /\ UNCHANGED <<stage, status_text, raw_text>>
              ELSE /\ pc' = "return"
                   /\ stage' = new.stage
                   /\ status_text' = new.status_text
                   /\ raw_text' = new.raw_text
                   /\ UNCHANGED raised
  /\ UNCHANGED <<eskom_data, power_alert_color, payload, inserted, pushed,
                 exits, t1, t2, stage1, stage2,
                 status1, ta>>
  /\ UNCHANGED ivars

\* line 98: Method 3 is not entered because the file is absent
Method3NoFile ==
  /\ pc = "tier3"
  /\ Tier3Guard(stage, TRUE)
  /\ ~Tier3Guard(stage, FALSE)
  /\ local_file' = "no"
  /\ calls' = Append(calls, "exists_local_file")
  /\ pc' = "return"
  /\ UNCHANGED <<stage, status_text, raw_text, eskom_data, power_alert_color,
                 payload, inserted, pushed, exits, raised, t1, t2, t3,
                 stage1, stage2,
                 status1, ta>>
  /\ UNCHANGED ivars

\* line 98: Method 3 is not entered because stage is resolved; "and"
\* short-circuits, so os.path.exists is not asked
Method3Skip ==
  /\ pc = "tier3"
  /\ ~Tier3Guard(stage, TRUE)
  /\ pc' = "return"
  /\ UNCHANGED <<stage, status_text, raw_text, eskom_data, power_alert_color,
                 payload, calls, inserted, pushed, exits, raised, t1, t2, t3,
                 stage1, stage2, local_file,
                 status1, ta>>
  /\ UNCHANGED ivars

\* lines 118-122 and 129: fetch_eskom_status returns into run
Return ==
  /\ pc = "return"
  /\ eskom_data' = ReturnValue(stage, status_text, raw_text)
  /\ pc' = "alert"
  /\ UNCHANGED <<stage, status_text, raw_text, power_alert_color, payload,
                 calls, inserted, pushed, exits, raised, t1, t2, t3,
                 stage1, stage2, local_file,
                 status1, ta>>
  /\ UNCHANGED ivars

\* line 133 with lines 21-40: fetch_power_alert
FetchPowerAlert ==
  /\ pc = "alert"
  /\ \E resp \in AlertResponses :
       /\ ta' = resp
       /\ calls' = Append(calls, "get_power_alert")
       /\ IF AlertEscapes(resp)
          THEN /\ pc' = "raised"
               /\ raised' = "fetch_power_alert"
               /\ UNCHANGED power_alert_color
          ELSE /\ pc' = "gate"
               /\ power_alert_color' = FetchPowerAlertResult(resp)
               /\ UNCHANGED raised
  /\ UNCHANGED <<stage, status_text, raw_text, eskom_data, payload, inserted,
                 pushed, exits, t1, t2, t3, stage1, stage2, local_file,
                 status1>>
  /\ UNCHANGED ivars

\* lines 138-141: both sources unresolved, exit with code 1
Abort ==
  /\ pc = "gate"
  /\ BothSourcesUnresolved(eskom_data, power_alert_color)
  /\ exits' = Append(exits, 1)
  /\ calls' = Append(calls, "exit")
  /\ pc' = "done"
  /\ UNCHANGED <<stage, status_text, raw_text, eskom_data, power_alert_color,
                 payload, inserted, pushed, raised, t1, t2, t3, stage1,
                 stage2, local_file,
                 status1, ta>>
  /\ UNCHANGED ivars

\* lines 143-153: the payload is built
Construct ==
  /\ pc = "gate"
  /\ ~BothSourcesUnresolved(eskom_data, power_alert_color)
  /\ payload' = BuildPayload(eskom_data, power_alert_color)
  /\ pc' = "insert"
  /\ UNCHANGED <<stage, status_text, raw_text, eskom_data, power_alert_color,
                 calls, inserted, pushed, exits, raised, t1, t2, t3, stage1,
                 stage2, local_file,
                 status1, ta>>
  /\ UNCHANGED ivars

\* lines 158-162: the Supabase insert, which succeeds or raises
Insert ==
  /\ pc = "insert"
  /\ \E ok \in BOOLEAN :
       /\ calls' = Append(calls, IF ok THEN "insert" ELSE "insert_failed")
       /\ inserted' = Append(inserted, payload)
       /\ IF InsertEscapes(ok)
          THEN pc' = "raised" /\ raised' = "insert"
          ELSE pc' = "push" /\ UNCHANGED raised
  /\ UNCHANGED <<stage, status_text, raw_text, eskom_data, power_alert_color,
                 payload, pushed, exits, t1, t2, t3, stage1, stage2, local_file,
                 status1, ta>>
  /\ UNCHANGED ivars

\* line 165: Actor.push_data, which succeeds or raises
Push ==
  /\ pc = "push"
  /\ \E ok \in BOOLEAN :
       /\ calls' = Append(calls, IF ok THEN "push_data" ELSE "push_data_failed")
       /\ pushed' = Append(pushed, payload)
       /\ IF PushEscapes(ok)
          THEN pc' = "raised" /\ raised' = "push_data"
          ELSE pc' = "exit" /\ UNCHANGED raised
  /\ UNCHANGED <<stage, status_text, raw_text, eskom_data, power_alert_color,
                 payload, inserted, exits, t1, t2, t3, stage1, stage2, local_file,
                 status1, ta>>
  /\ UNCHANGED ivars

\* line 168: await Actor.exit()
Exit ==
  /\ pc = "exit"
  /\ exits' = Append(exits, 0)
  /\ calls' = Append(calls, "exit")
  /\ pc' = "done"
  /\ UNCHANGED <<stage, status_text, raw_text, eskom_data, power_alert_color,
                 payload, inserted, pushed, raised, t1, t2, t3, stage1,
                 stage2, local_file,
                 status1, ta>>
  /\ UNCHANGED ivars

Next ==
  \/ ActorInit
  \/ Method1
  \/ Method2
  \/ Method2Skip
  \/ Method3
  \/ Method3NoFile
  \/ Method3Skip
  \/ Return
  \/ FetchPowerAlert
  \/ Abort
  \/ Construct
  \/ Insert
  \/ Push
  \/ Exit

Spec == Init /\ [][Next]_vars

-----------------------------------------------------------------------------
(* ingest_schedule.py: ScheduleIngestor and the main loop *)

\* at most MaxFiles files match the glob
MaxFiles == 2
\* the SP_List sheet has at most MaxSuburbRows rows
MaxSuburbRows == 2
\* the Schedule sheet has at most MaxSchedRows rows after the skipped ones
MaxSchedRows == 2
\* and MaxDays day columns
MaxDays == 1

\* line 82: the safety limit on rows
SafetyLimit == 96
\* line 90: rows per time slot
RowsPerSlot == 8
\* line 94: range(1, 32)
LastDay == 31
\* line 95: day 1 sits in column 3, col_idx = day_idx + 2
DayColOffset == 2
\* line 52
SuburbBatchSize == 1000
\* line 141
ScheduleBatchSize == 2000

\* file name prefixes (filename.replace(".xlsx", "")) of the files on disk
FilePrefixes == {"Gauteng_LS", "WesternCape_LS", "Other_LS"}

\* lines 155-166 and 175: province_map.get(prefix, "UNKNOWN")
ProvinceOf(prefix) ==
  CASE prefix = "Gauteng_LS" -> "GP"
    [] prefix = "WesternCape_LS" -> "WC"
    [] prefix = "KwaZulu-Natal_LS" -> "KZN"
    [] prefix = "Kwazulu-Natal_LS" -> "KZN"
    [] prefix = "EasternCape_LS" -> "EC"
    [] prefix = "FreeState_LS" -> "FS"
    [] prefix = "Mpumalanga_LS" -> "MP"
    [] prefix = "Limpopo_LS" -> "LP"
    [] prefix = "NorthWest_LS" -> "NW"
    [] prefix = "NorthernCape_LS" -> "NC"
    [] OTHER -> "UNKNOWN"

\* line 169: what glob.glob may return, distinct files in any order
FileLists ==
  { fs \in UNION { [1..n -> FilePrefixes] : n \in 0..MaxFiles } :
      \A i, j \in 1..Len(fs) : i # j => fs[i] # fs[j] }

\* sequences of at most n elements of S
SeqsUpTo(S, n) == UNION { [1..k -> S] : k \in 0..n }

\* rows of the SP_List sheet; BLOCK is str(row.get('BLOCK', ''))
SuburbRows ==
  { [BLOCK |-> b, MP_NAME |-> "Johannesburg", SP_NAME |-> sp, SHEET |-> "1"] :
      b \in { <<"n","a","n">>, <<"3">>, <<" ">> }, sp \in {"Alpha", "Beta"} }

\* a cell of the Schedule sheet: NaN or a number
NaNCell == [isna |-> TRUE, val |-> 0]
NumCell(v) == [isna |-> FALSE, val |-> v]
CellValues == { NaNCell, NumCell(0), NumCell(3) }

\* rows of the Schedule sheet: columns 0 and 1 hold the slot's times (NaN
\* outside the first row of a slot), columns 3.. hold the days
ScheduleRows ==
  { [start |-> "nan", end |-> "nan", cells |-> c] : c \in [1..MaxDays -> CellValues] }
  \cup { [start |-> "00:00:00", end |-> "02:30:00", cells |-> c] :
           c \in [1..MaxDays -> CellValues] }

\* len(row): columns 0, 1, 2 and the day columns
RowLen(row) == 3 + Len(row.cells)

\* lines 26-38: the payload of one SP_List row, or nothing
SuburbPayloads(row, pid) ==
  LET block == Strip(row.BLOCK)
  IN  IF block = <<>> \/ block = <<"n","a","n">>
      THEN <<>>
      ELSE << [province_id |-> pid,
               municipality_name |-> row.MP_NAME,
               suburb_name |-> row.SP_NAME,
               block_id |-> block,
               metadata |-> [sheet |-> row.SHEET]] >>

\* lines 25-38: records of the whole sheet
RECURSIVE SuburbRecords(_, _)
SuburbRecords(df, pid) ==
  IF df = <<>> THEN <<>>
  ELSE SuburbPayloads(Head(df), pid) \o SuburbRecords(Tail(df), pid)

\* line 45
SuburbKey(r) == <<r.province_id, r.municipality_name, r.suburb_name>>

\* lines 42-48: the first record of every key
Deduplicate(records) ==
  LET keep == { i \in 1..Len(records) :
                  \A j \in 1..(i - 1) : SuburbKey(records[j]) # SuburbKey(records[i]) }
      F[i \in 0..Len(records)] ==
        IF i = 0 THEN <<>>
        ELSE IF i \in keep THEN Append(F[i - 1], records[i]) ELSE F[i - 1]
  IN  F[Len(records)]

\* lines 53-54 / 142-143: records[i:i+batch_size] for i in range(0, len, size)
Batches(records, size) ==
  [k \in 1..((Len(records) + size - 1) \div size) |->
     SubSeq(records, (k - 1) * size + 1,
            IF k * size < Len(records) THEN k * size ELSE Len(records))]

\* what the sink was handed: the batches of one call, with the file and the
\* province_id of the call and whether each execute() succeeded
Handed(batches, failed) ==
  [k \in 1..Len(batches) |->
     [file |-> file_path, called_with |-> province_id,
      batch |-> batches[k], ok |-> k \notin failed]]

\* lines 103-110 and 130-137: the record of one cell
ScheduleRecord(stage_level, day_idx, start, end, val) ==
  [province_id |-> "GP",
   stage |-> stage_level,
   day_of_month |-> day_idx,
   start_time |-> start,
   end_time |-> end,
   affected_blocks |-> << IntToStr(val) >>]

\* lines 94-137: the records of one row, for day_idx from d on
RECURSIVE DayRecords(_, _, _, _, _)
DayRecords(row, d, stage_level, start, end) ==
  IF d > LastDay \/ d + DayColOffset >= RowLen(row)
  THEN <<>>
  ELSE LET val == row.cells[d]
           rest == DayRecords(row, d + 1, stage_level, start, end)
       IN  IF val.isna \/ val.val = 0
           THEN rest
           ELSE << ScheduleRecord(stage_level, d, start, end, val.val) >> \o rest

\* lines 171-176: the next file of the main loop
MainNextFile ==
  /\ ipc = "main"
  /\ files # <<>>
  /\ file_path' = Head(files)
  /\ files' = Tail(files)
  /\ province_id' = ProvinceOf(Head(files))
  /\ ipc' = "suburbs"
  /\ UNCHANGED <<nrows, idx, current_start, current_end, schedule_records,
                 suburbs_upserted, schedule_inserted>>
  /\ UNCHANGED rvars

\* line 171: no file is left
MainDone ==
  /\ ipc = "main"
  /\ files = <<>>
  /\ ipc' = "done"
  /\ UNCHANGED <<files, file_path, province_id, nrows, idx, current_start,
                 current_end, schedule_records, suburbs_upserted,
                 schedule_inserted>>
  /\ UNCHANGED rvars

\* lines 17-61 and 178: ingest_suburbs(file_path, province_id); read_excel
\* may raise, each upsert may raise and is caught
IngestSuburbs ==
  /\ ipc = "suburbs"
  /\ \/ /\ ipc' = "raised"
        /\ UNCHANGED suburbs_upserted
     \/ \E df \in SeqsUpTo(SuburbRows, MaxSuburbRows) :
          LET batches == Batches(Deduplicate(SuburbRecords(df, province_id)),
                                 SuburbBatchSize)
          IN  \E failed \in SUBSET (1..Len(batches)) :
                /\ suburbs_upserted' = suburbs_upserted \o Handed(batches, failed)
                /\ ipc' = "schedule"
  /\ UNCHANGED <<files, file_path, province_id, nrows, idx, current_start,
                 current_end, schedule_records, schedule_inserted>>
  /\ UNCHANGED rvars

\* lines 63-75 and 179: ingest_schedule(file_path, province_id) reads the
\* sheet (read_excel may raise) and sets its locals
ScheduleRead ==
  /\ ipc = "schedule"
  /\ \/ /\ ipc' = "raised"
        /\ UNCHANGED <<nrows, idx, current_start, current_end, schedule_records>>
     \/ /\ nrows' \in 0..MaxSchedRows
        /\ idx' = 0
        /\ current_start' = "None"
        /\ current_end' = "None"
        /\ schedule_records' = <<>>
        /\ ipc' = "rows"
  /\ UNCHANGED <<files, file_path, province_id, suburbs_upserted,
                 schedule_inserted>>
  /\ UNCHANGED rvars

\* lines 81-137: one iteration of the loop over the rows
ScheduleRow ==
  /\ ipc = "rows"
  /\ idx < nrows
  /\ idx < SafetyLimit
  /\ \E row \in ScheduleRows :
       LET start == IF row.start # "nan" THEN row.start ELSE current_start
           end == IF row.start # "nan" THEN row.end ELSE current_end
           stage_level == (idx % RowsPerSlot) + 1
       IN  /\ current_start' = start
           /\ current_end' = end
           /\ schedule_records' =
                schedule_records \o DayRecords(row, 1, stage_level, start, end)
  /\ idx' = idx + 1
  /\ UNCHANGED <<ipc, files, file_path, province_id, nrows, suburbs_upserted,
                 schedule_inserted>>
  /\ UNCHANGED rvars

\* lines 139-148: the batch insert, each insert may raise and is caught
ScheduleInsert ==
  /\ ipc = "rows"
  /\ (idx >= nrows \/ idx >= SafetyLimit)
  /\ LET batches == Batches(schedule_records, ScheduleBatchSize)
     IN  \E failed \in SUBSET (1..Len(batches)) :
           schedule_inserted' = schedule_inserted \o Handed(batches, failed)
  /\ ipc' = "main"
  /\ UNCHANGED <<files, file_path, province_id, nrows, idx, current_start,
                 current_end, schedule_records, suburbs_upserted>>
  /\ UNCHANGED rvars

\* lines 150-169: the script starts with the files the glob found
InitIngest ==
  /\ RunInit
  /\ ipc = "main"
  /\ files \in FileLists
  /\ file_path = ""
  /\ province_id = ""
  /\ nrows = 0
  /\ idx = 0
  /\ current_start = "None"
  /\ current_end = "None"
  /\ schedule_records = <<>>
  /\ suburbs_upserted = <<>>
  /\ schedule_inserted = <<>>

NextIngest ==
  \/ MainNextFile
  \/ MainDone
  \/ IngestSuburbs
  \/ ScheduleRead
  \/ ScheduleRow
  \/ ScheduleInsert

SpecIngest == InitIngest /\ [][NextIngest]_vars

-----------------------------------------------------------------------------
TypeOK ==
  /\ pc \in {"init", "tier1", "tier2", "tier3", "return", "alert", "gate",
             "insert", "push", "exit", "done", "raised"}
  /\ stage \in Int
  /\ Len(exits) <= 1

-----------------------------------------------------------------------------
(* Properties *)

InCalls(c) == \E i \in 1..Len(calls) : calls[i] = c

\* fetch_eskom_status has returned into run
Returned == pc \in {"alert", "gate", "insert", "push", "exit", "done", "raised"}

\* run is past the validity gate of line 138
PastGate == pc \in {"insert", "push", "exit", "done", "raised"}

\* the order in which fetch_eskom_status may call its collaborators
TierCallOrder ==
  <<"get_main_page", "get_status_api", "exists_local_file", "open_local_file">>
IsTierCall(c) == \E k \in 1..Len(TierCallOrder) : TierCallOrder[k] = c
TierRank(c) == CHOOSE k \in 1..Len(TierCallOrder) : TierCallOrder[k] = c

\* C1: the tiers are tried in the fixed order 1, 2, 3; the GetStatus API is
\* requested only if Method 1 left stage at -1; the local file is read only
\* if Methods 1 and 2 both left stage at -1 and the file exists; when
\* Method 1 resolves a stage, neither of the other tiers is attempted.
C1_TiersShortCircuit ==
  /\ \A i, j \in 1..Len(calls) :
       (i < j /\ IsTierCall(calls[i]) /\ IsTierCall(calls[j]))
         => TierRank(calls[i]) < TierRank(calls[j])
  /\ InCalls("get_status_api") => stage1 = 0 - 1
  /\ InCalls("open_local_file") =>
       (stage1 = 0 - 1 /\ stage2 = 0 - 1 /\ local_file = "yes")
  /\ (pc # "init" /\ pc # "tier1" /\ stage1 # 0 - 1) =>
       /\ ~InCalls("get_status_api")
       /\ ~InCalls("exists_local_file")
       /\ ~InCalls("open_local_file")
       /\ t2 = NotTried
       /\ t3 = NotTried

\* the local file was read after both the page and the API answered without
\* resolving a stage
C1_Witness ==
  /\ pc = "return"
  /\ t1.kind = "ok"
  /\ t2.kind = "ok"
  /\ InCalls("open_local_file")

\* C2: past the payload step, the run has aborted (exit code 1, no record)
\* exactly when stage == -1 and alert colour == "Unknown"; in every other
\* combination the record is built and handed to the insert and the push.
C2_AbortIffBothUnresolved ==
  PastGate =>
    LET both == eskom_data.stage = 0 - 1 /\ power_alert_color = "Unknown"
    IN  /\ both <=> exits = <<1>>
        /\ both <=> payload = NoPayload
        /\ ~both =>
             /\ payload.raw_response.power_alert_color = power_alert_color
             /\ pc # "insert" => inserted = <<payload>>
             /\ pc \in {"exit", "done", "raised"} => pushed = <<payload>>

\* a record was dispatched although the stage was unresolved
C2_Witness ==
  /\ pc = "done"
  /\ eskom_data.stage = 0 - 1
  /\ power_alert_color = "Green"
  /\ pushed = <<payload>>

\* C3: when both sources are unresolved the run ends with a non-zero exit
\* code, and neither the insert nor the push is ever invoked.
C3_AbortDispatchesNothing ==
  (Returned /\ pc # "alert" /\ pc # "gate"
     /\ eskom_data.stage = 0 - 1 /\ power_alert_color = "Unknown") =>
    /\ pc = "done"
    /\ Len(exits) = 1
    /\ exits[1] # 0
    /\ inserted = <<>>
    /\ pushed = <<>>
    /\ \A c \in {"insert", "insert_failed", "push_data", "push_data_failed"} :
         ~InCalls(c)

\* a run ended by the abort
C3_Witness ==
  /\ pc = "done"
  /\ eskom_data.stage = 0 - 1
  /\ power_alert_color = "Unknown"
  /\ exits = <<1>>

\* C4: when the insert fails the push is still attempted afterwards with the
\* same record, and the run then exits normally.
C4_InsertFailureThenPushAndExit ==
  InCalls("insert_failed") =>
    \/ pc = "push"
    \/ /\ pushed = inserted
       /\ pushed = <<payload>>
       /\ raised = "none"
       /\ pc \in {"exit", "done"}
       /\ pc = "done" => exits = <<0>>

\* C5: every record handed to the insert or to the push has a stage that is
\* a non-negative integer.
C5_PersistedStageNonNegative ==
  /\ \A i \in 1..Len(inserted) : inserted[i].stage \in Nat
  /\ \A i \in 1..Len(pushed) : pushed[i].stage \in Nat

\* a record with the coerced stage was handed to both sinks
C5_Witness ==
  /\ eskom_data.stage = 0 - 1
  /\ Len(inserted) = 1
  /\ Len(pushed) = 1
  /\ pushed[1].stage = 0

\* C6: no failure of a collaborator leaves run as an exception; every run
\* that has stopped has made its exit call, with a non-zero code only when
\* both sources are unresolved.
C6_NoExceptionLeavesRun ==
  /\ raised = "none"
  /\ pc # "raised"
  /\ pc = "done" =>
       /\ Len(exits) = 1
       /\ exits[1] # 0 <=>
            (eskom_data.stage = 0 - 1 /\ power_alert_color = "Unknown")

\* Method 2 was attempted and did not resolve a stage: the request raised,
\* the answer was not 200, the body was not a number, or the number was <= 0
Tier2Failed == t2.kind # "skipped" /\ stage2 = 0 - 1

\* Method 3 was unavailable (no local file) or failed (the read raised, or
\* the document has no lsstatus element)
Tier3Failed ==
  \/ local_file = "no"
  \/ t3.kind = "error"
  \/ (t3.kind = "ok" /\ ~t3.has_span)

\* C7: fetch_eskom_status never raises; when Method 1 fails with a transport
\* error and Methods 2 and 3 are unavailable or fail, it returns stage = -1,
\* status = "Unknown" and raw_text = "Unknown".
C7_TotalFailureResult ==
  /\ raised # "fetch_eskom_status"
  /\ (Returned /\ t1.kind \in {"error", "non200"} /\ Tier2Failed /\ Tier3Failed)
       => eskom_data = [stage |-> 0 - 1, status |-> Unknown, raw_text |-> Unknown]

\* all three collaborators raised and the resolver has returned
C7_Witness ==
  /\ Returned
  /\ t1.kind = "error"
  /\ t2.kind = "error"
  /\ t3.kind = "error"
  /\ eskom_data.raw_text = Unknown

\* c and d are the same letter up to case, or the same character
SameLetter(c, d) ==
  \/ c = d
  \/ \E i \in 1..26 : {c, d} = {LowerCase[i], UpperCase[i]}

\* p occurs in s at position i, in any letter case
OccursAt(s, p, i) ==
  /\ i >= 1
  /\ i + Len(p) - 1 <= Len(s)
  /\ \A k \in 1..Len(p) : SameLetter(s[i + k - 1], p[k])

\* p occurs in s, in any letter case
OccursIn(s, p) == \E i \in 1..Len(s) : OccursAt(s, p, i)

\* Method 1 extracted a text from the status element
Tier1Extracted == t1.kind = "ok" /\ t1.has_span

\* C8: when the text extracted by Method 1 contains "NOT LOAD SHEDDING" in
\* any letter case, the result is stage = 0, status = "Suspended", and
\* neither Method 2 nor Method 3 is consulted.
C8_NotLoadSheddingSuspended ==
  (Returned /\ Tier1Extracted /\ OccursIn(ExtractText(t1), NOT_LOAD_SHEDDING))
    => /\ eskom_data.stage = 0
       /\ eskom_data.status = Suspended
       /\ t2 = NotTried
       /\ t3 = NotTried
       /\ local_file = "not_asked"
       /\ ~InCalls("get_status_api")

\* the page said "xNot Load Shedding" and the resolver has returned
C8_Witness ==
  /\ Returned
  /\ Tier1Extracted
  /\ t1.span = <<"x">> \o FragNotLS
  /\ eskom_data.stage = 0

STAGE_4 == STAGE \o <<" ", "4">>

\* C9 as stated: any extracted text that contains "STAGE 4" in any letter
\* case gives stage = 4 and status = "Active".
C9_AnyStage4Text ==
  (Returned /\ Tier1Extracted /\ OccursIn(ExtractText(t1), STAGE_4))
    => /\ eskom_data.stage = 4
       /\ eskom_data.status = Active

\* "STAGE" in any letter case at position j, then optional whitespace, then
\* a decimal digit
StageNumberAt(s, j) ==
  /\ OccursAt(s, STAGE, j)
  /\ \E k \in (j + 5)..Len(s) :
       /\ IsDigit(s[k])
       /\ \A m \in (j + 5)..(k - 1) : IsSpace(s[m])

\* the first "STAGE <number>" of s is "STAGE 4" with no further digit
FirstStageNumberIs4(s) ==
  \E i \in 1..Len(s) :
    /\ OccursAt(s, STAGE_4, i)
    /\ (i + 7 <= Len(s)) => ~IsDigit(s[i + 7])
    /\ \A j \in 1..(i - 1) : ~StageNumberAt(s, j)

\* C9 (amended): when the text extracted by Method 1 does not contain
\* "NOT LOAD SHEDDING" and its first occurrence of "STAGE" followed by
\* optional whitespace and a digit is a "STAGE 4" whose 4 is not followed by
\* another digit (any letter case), the result is stage = 4, status = "Active".
C9_FirstStage4Active ==
  (Returned /\ Tier1Extracted
     /\ ~OccursIn(ExtractText(t1), NOT_LOAD_SHEDDING)
     /\ FirstStageNumberIs4(ExtractText(t1)))
    => /\ eskom_data.stage = 4
       /\ eskom_data.status = Active

\* the page said "STAGEStage 4": a bare STAGE, then Stage 4 in mixed case
C9_Witness ==
  /\ Returned
  /\ Tier1Extracted
  /\ t1.span = STAGE \o FragStage4
  /\ eskom_data.stage = 4

\* C10: when Method 1 left the stage unresolved and the GetStatus API answers
\* 200 with the integer v: for v > 0 the result has stage = v - 1 and status
\* "Active" if v - 1 > 0, else "Suspended"; for v <= 0 the stage stays -1 and
\* Method 2 leaves status as Method 1 left it.
C10_NumericApiMapping ==
  \A v \in (0 - 1)..MaxApiVal :
    (t2.kind = "ok" /\ t2.body = SignedStr(v) \o <<"\n">>) =>
      /\ stage1 = 0 - 1
      /\ v > 0 =>
           /\ stage2 = v - 1
           /\ Returned =>
                /\ eskom_data.stage = v - 1
                /\ eskom_data.status = IF v - 1 > 0 THEN Active ELSE Suspended
      /\ v <= 0 =>
           /\ stage2 = 0 - 1
           /\ pc = "tier3" => (stage = 0 - 1 /\ status_text = status1)

\* the API answered 3 and the resolver returned stage 2
C10_Witness ==
  /\ Returned
  /\ t2.kind = "ok"
  /\ t2.body = <<"3", "\n">>
  /\ eskom_data.stage = 2
  /\ eskom_data.status = Active

\* number of times c was called
CallCount(c) == Cardinality({ i \in 1..Len(calls) : calls[i] = c })

\* C11: fetch_power_alert makes one request and never raises; a 200 answer
\* with the Color field gives that value, a 200 answer without it gives
\* "Unknown", and a transport error, a non-200 answer or a body that is not
\* JSON gives "Unknown".
C11_PowerAlertResult ==
  /\ raised # "fetch_power_alert"
  /\ CallCount("get_power_alert") <= 1
  /\ ta.kind # "skipped" =>
       /\ CallCount("get_power_alert") = 1
       /\ pc \notin {"init", "tier1", "tier2", "tier3", "return", "alert"}
       /\ (ta.kind = "ok" /\ ta.has_color) => power_alert_color = ta.color
       /\ (ta.kind = "ok" /\ ~ta.has_color) => power_alert_color = "Unknown"
       /\ ta.kind \in {"error", "non200", "malformed"} =>
            power_alert_color = "Unknown"

\* the API answered 200 with a JSON object that has no Color field
C11_Witness ==
  /\ pc = "gate"
  /\ ta.kind = "ok"
  /\ ~ta.has_color
  /\ power_alert_color = "Unknown"

\* a payload has been built from eskom_data and power_alert_color
Built ==
  /\ PastGate
  /\ ~(eskom_data.stage = 0 - 1 /\ power_alert_color = "Unknown")

\* C12: a built record has the resolver's stage, or 0 when that is -1, the
\* resolver's status unchanged, and raw_response carrying the resolver's
\* raw_text and the alert colour; stage = -1 / status "Unknown" with colour
\* "Green" gives stage 0 and status "Unknown".
C12_PayloadFields ==
  Built =>
    /\ payload.stage = IF eskom_data.stage = 0 - 1 THEN 0 ELSE eskom_data.stage
    /\ payload.status = eskom_data.status
    /\ payload.raw_response.eskom_text = eskom_data.raw_text
    /\ payload.raw_response.power_alert_color = power_alert_color
    /\ (eskom_data.stage = 0 - 1 /\ eskom_data.status = Unknown
          /\ power_alert_color = "Green")
         => (payload.stage = 0 /\ payload.status = Unknown)
    /\ \A i \in 1..Len(inserted) : inserted[i] = payload
    /\ \A i \in 1..Len(pushed) : pushed[i] = payload

\* an unresolved stage with colour "Green" was dispatched as stage 0, "Unknown"
C12_Witness ==
  /\ pc = "done"
  /\ eskom_data.stage = 0 - 1
  /\ eskom_data.status = Unknown
  /\ power_alert_color = "Green"
  /\ pushed = <<payload>>
  /\ payload.stage = 0

\* C13: Method 3 leaves stage, status and raw_text as the rule of Method 1
\* would leave them on the same extracted text, the text that matches
\* neither pattern included.
C13_Tier3SameRuleAsTier1 ==
  (pc = "return" /\ t3.kind = "ok") =>
    Locals(stage, status_text, raw_text)
      = Classify1(0 - 1, status1, ExtractText(t3))

\* C14: every returned result has stage = 0 only with status "Suspended",
\* stage >= 1 only with status "Active", and status "Suspended" or "Active"
\* only with a resolved stage.
C14_StageStatusConsistent ==
  Returned =>
    /\ eskom_data.stage = 0 => eskom_data.status = Suspended
    /\ eskom_data.stage >= 1 => eskom_data.status = Active
    /\ eskom_data.status \in {Suspended, Active} => eskom_data.stage >= 0

\* some "STAGE" of s is followed by optional whitespace and a digit
HasStageNumber(s) == \E j \in 1..Len(s) : StageNumberAt(s, j)

\* C15: when the text extracted by Method 1 contains "STAGE" with no integer
\* after it and does not contain "NOT LOAD SHEDDING", stage stays -1, status
\* stays "Unknown", raw_text holds the text, and Method 2 is attempted.
C15_StageWithoutNumber ==
  (Tier1Extracted
     /\ OccursIn(ExtractText(t1), STAGE)
     /\ ~OccursIn(ExtractText(t1), NOT_LOAD_SHEDDING)
     /\ ~HasStageNumber(ExtractText(t1)))
    => /\ stage1 = 0 - 1
       /\ status1 = Unknown
       /\ pc = "tier2" =>
            /\ stage = 0 - 1
            /\ status_text = Unknown
            /\ raw_text = ExtractText(t1)
       /\ pc \notin {"init", "tier1", "tier2"} => InCalls("get_status_api")

\* the page said "STAGEx" and the GetStatus API was then asked
C15_Witness ==
  /\ pc = "tier3"
  /\ Tier1Extracted
  /\ t1.span = STAGE \o <<"x">>
  /\ InCalls("get_status_api")
  /\ status1 = Unknown

\* C16: every schedule record that ingest_schedule(file_path, province_id)
\* builds and inserts carries the province_id it was called with, so the
\* suburb rows and the schedule rows of one file share one province_id.
C16_ScheduleCarriesProvince ==
  /\ ipc = "rows" =>
       \A i \in 1..Len(schedule_records) :
         schedule_records[i].province_id = province_id
  /\ \A k \in 1..Len(schedule_inserted) :
       \A i \in 1..Len(schedule_inserted[k].batch) :
         schedule_inserted[k].batch[i].province_id
           = schedule_inserted[k].called_with
  /\ \A k \in 1..Len(schedule_inserted), m \in 1..Len(suburbs_upserted) :
       schedule_inserted[k].file = suburbs_upserted[m].file =>
         \A i \in 1..Len(schedule_inserted[k].batch),
            j \in 1..Len(suburbs_upserted[m].batch) :
           schedule_inserted[k].batch[i].province_id
             = suburbs_upserted[m].batch[j].province_id

====
